---- MODULE Spec2Model ----
(***************************************************************************)
(* The arbitrage server of src/server.js: the scan loop (mainLoop,         *)
(* scanPair, fetchPrice) and the manual execution path (the socket         *)
(* 'execute' handler, POST /api/execute, executeArbitrage).                *)
(*                                                                         *)
(* Numbers.  Prices are integers (ticks).  A numeric field the payload     *)
(* lacks is Undefined; a ticker's missing, null or zero bid/ask is 0       *)
(* (every such value is falsy in `price.bid && price.ask`).  The spread    *)
(* (sell - buy) / buy is kept as the pair <<sell - buy, buy>> and compared *)
(* with MIN_ARBITRAGE_SPREAD = MinSpreadNum / MinSpreadDen by cross        *)
(* multiplication; for integer prices of this size the IEEE quotient       *)
(* compares with the literal 0.002 exactly as the rational does.           *)
(*                                                                         *)
(* Steps.  JavaScript runs a handler without interruption up to its next   *)
(* await of an adapter call or timer, so every action below is one such    *)
(* run: the trigger up to the await of createMarketOrder, the return of    *)
(* createMarketOrder up to the await of withdraw, and so on.               *)
(*                                                                         *)
(* Specifications.  SpecExec: one manual execution over every payload.     *)
(* SpecScan: the scan loop over every answer of up to three adapters.      *)
(* Spec, SpecOne: the loop and the executions together.  SpecFault: the    *)
(* loop with an io.emit that may raise inside mainLoop's try.  SpecStop:   *)
(* the loop with a stop signal; the source never assigns `running`, so     *)
(* the signal is the specification's and exists in SpecStop only.          *)
(***************************************************************************)
EXTENDS Integers, Sequences, FiniteSets, TLC

\* ---- bounds of the model ------------------------------------------------
\* price levels 500 .. 500 + PriceSteps (501 over 500 is a spread of exactly 0.002)
PriceSteps == 2
\* manual execution requests that may be in flight together
MaxReq == 1

\* ---- program constants ---------------------------------------------------
\* MIN_ARBITRAGE_SPREAD = 0.002 = MinSpreadNum / MinSpreadDen
MinSpreadNum == 2
MinSpreadDen == 1000
TRADE_AMOUNT_USDT == 10

\* Object.keys(exchanges) lists the adapters in creation order; three of the five
ExOrder == <<"binance", "bybit", "okx">>
ExIds == {ExOrder[i] : i \in 1..Len(ExOrder)}
\* an exchange id a payload may name although no adapter was created for it
UnknownEx == "kraken"
PAIRS == <<"BTC/USDT", "ETH/USDT">>
PairSet == {PAIRS[i] : i \in 1..Len(PAIRS)}

\* a JavaScript undefined (or NaN) in a numeric field, and in the pair field
Undefined == 0 - 1
NoPair == "undefined"

Levels == {500 + i : i \in 0..PriceSteps}

\* pair.split('/')[0]
BaseAsset(pair) ==
    CASE pair = "BTC/USDT" -> "BTC"
      [] pair = "ETH/USDT" -> "ETH"
      [] OTHER -> pair

VARIABLES
    exchanges,          \* id -> has-record, for the adapters createExchangesFromEnv made
    withdrawAddresses,  \* <<exchange, asset>> -> destination address
    running,            \* the flag of mainLoop's while
    loop,               \* mainLoop's position and locals
    emitted,            \* ticker/opportunity events of the current for-iteration
    req,                \* the manual execution requests
    calls               \* every createMarketOrder / withdraw call made on an adapter

vars == <<exchanges, withdrawAddresses, running, loop, emitted, req, calls>>

\* ---- adapters ---------------------------------------------------------------
\* exchange.has of one adapter
HasRecords == [fetchTicker : BOOLEAN, createMarketOrder : BOOLEAN, withdraw : BOOLEAN]

\* exchange && exchange.has && exchange.has[cap]
Has(exs, id, cap) == id \in DOMAIN exs /\ exs[id][cap]

\* what a createMarketOrder or withdraw call comes back with
AdapterOutcomes ==
    {[ok |-> TRUE, message |-> ""],
     [ok |-> FALSE, message |-> "insufficient funds"],
     [ok |-> FALSE, message |-> "request timed out"]}

\* ---- spread -------------------------------------------------------------------
\* (sellPrice - buyPrice) / buyPrice < MIN_ARBITRAGE_SPREAD, as JavaScript decides it:
\* NaN (an undefined operand, 0/0) compares false, x/0 is +-Infinity
SpreadTooLow(sellPrice, buyPrice) ==
    IF sellPrice = Undefined \/ buyPrice = Undefined THEN FALSE
    ELSE IF buyPrice = 0 THEN sellPrice < 0
    ELSE (sellPrice - buyPrice) * MinSpreadDen < MinSpreadNum * buyPrice

\* TRADE_AMOUNT_USDT / buyPrice, as a fraction
BaseAmount(buyPrice) == <<TRADE_AMOUNT_USDT, buyPrice>>

\* ---- executeArbitrage ------------------------------------------------------------
NoCall == <<>>
Result(ok, reason, err, note) == [ok |-> ok, reason |-> reason, err |-> err, note |-> note]
Returns(result, logs) == [kind |-> "return", result |-> result, err |-> "", logs |-> logs, call |-> NoCall]
Throws(err) == [kind |-> "throw", result |-> Result(FALSE, "", "", ""), err |-> err, logs |-> <<>>, call |-> NoCall]
Awaits(call, logs) == [kind |-> "await", result |-> Result(FALSE, "", "", ""), err |-> "", logs |-> logs, call |-> <<call>>]

Call(op, exchange, symbol, side, amount, address) ==
    [op |-> op, exchange |-> exchange, symbol |-> symbol, side |-> side,
     amount |-> amount, address |-> address]

\* the address looked up by asset alone, on whatever exchange has one
DestinationAddressByAsset(book, exchange, asset) ==
    IF \E k \in DOMAIN book : k[2] = asset
    THEN book[CHOOSE k \in DOMAIN book : k[2] = asset] ELSE ""

\* withdrawAddresses && withdrawAddresses[exchange] && withdrawAddresses[exchange][asset]
DestinationAddress(book, exchange, asset) ==
    IF <<exchange, asset>> \in DOMAIN book THEN book[<<exchange, asset>>] ELSE ""

\* the capability test moved before the spread test
ExecuteEnterCapabilityFirst(exs, data) ==
    IF data.shape # "full" THEN Throws("TypeError")
    ELSE IF ~Has(exs, data.bestBuy.exchange, "createMarketOrder")
         THEN Returns(Result(FALSE, "buy exchange cannot create orders via API", "", ""), <<>>)
    ELSE IF SpreadTooLow(data.bestSell.bid, data.bestBuy.ask)
         THEN Returns(Result(FALSE, "spread too low", "", ""), <<>>)
    ELSE Awaits(Call("createMarketOrder", data.bestBuy.exchange, data.pair, "buy",
                     BaseAmount(data.bestBuy.ask), ""), <<>>)

\* the capability test left out
ExecuteEnterUnchecked(exs, data) ==
    IF data.shape # "full" THEN Throws("TypeError")
    ELSE IF SpreadTooLow(data.bestSell.bid, data.bestBuy.ask)
         THEN Returns(Result(FALSE, "spread too low", "", ""), <<>>)
    ELSE Awaits(Call("createMarketOrder", data.bestBuy.exchange, data.pair, "buy",
                     BaseAmount(data.bestBuy.ask), ""), <<>>)

\* from the call to the await of createMarketOrder
ExecuteEnter(exs, data) ==
    IF data.shape # "full" THEN Throws("TypeError")
    ELSE IF SpreadTooLow(data.bestSell.bid, data.bestBuy.ask)
         THEN Returns(Result(FALSE, "spread too low", "", ""), <<>>)
    ELSE IF ~Has(exs, data.bestBuy.exchange, "createMarketOrder")
         THEN Returns(Result(FALSE, "buy exchange cannot create orders via API", "", ""), <<>>)
    ELSE Awaits(Call("createMarketOrder", data.bestBuy.exchange, data.pair, "buy",
                     BaseAmount(data.bestBuy.ask), ""), <<>>)

\* from the return of createMarketOrder to the await of withdraw
ExecuteAfterBuy(exs, book, data, o) ==
    IF ~o.ok THEN Returns(Result(FALSE, "order failed", o.message, ""), <<>>)
    ELSE IF data.pair = NoPair
         THEN Returns(Result(FALSE, "order failed", "TypeError", ""), <<>>)
    ELSE LET asset == BaseAsset(data.pair)
             destinationAddress == DestinationAddress(book, data.bestSell.exchange, asset)
         IN  IF destinationAddress = ""
             THEN Returns(Result(FALSE, "no destination address", "", ""),
                          <<"Bought", "No destination address configured">>)
             ELSE IF Has(exs, data.bestBuy.exchange, "withdraw")
             THEN Awaits(Call("withdraw", data.bestBuy.exchange, asset, "",
                              BaseAmount(data.bestBuy.ask), destinationAddress),
                         <<"Bought">>)
             ELSE Returns(Result(FALSE, "withdraw not supported", "", ""),
                          <<"Bought", "does not support programmatic withdraw">>)

\* withdraw's failure left to the outer catch
ExecuteAfterWithdrawOuterCatch(o) ==
    IF ~o.ok
    THEN Returns(Result(FALSE, "order failed", o.message, ""), <<>>)
    ELSE Returns(Result(TRUE, "", "", "buy placed and withdraw requested"),
                 <<"Withdraw requested", "Waiting for deposit">>)

\* withdraw's failure logged and passed over
ExecuteAfterWithdrawIgnored(o) ==
    Returns(Result(TRUE, "", "", "buy placed and withdraw requested"),
            (IF o.ok THEN <<"Withdraw requested">> ELSE <<"Withdraw failed">>)
            \o <<"Waiting for deposit">>)

\* from the return of withdraw to the end
ExecuteAfterWithdraw(o) ==
    IF ~o.ok
    THEN Returns(Result(FALSE, "withdraw failed", o.message, ""), <<"Withdraw failed">>)
    ELSE Returns(Result(TRUE, "", "", "buy placed and withdraw requested"),
                 <<"Withdraw requested", "Waiting for deposit">>)

\* ---- the two triggers -----------------------------------------------------------------
\* socket.on('execute'): the result, or the caught error, goes out as exec_result by
\* socket.emit, that is to the socket that asked ("caller"), where io.emit would
\* reach every connected client ("all")
SocketReplies(out) ==
    IF out.kind = "throw"
    THEN <<[channel |-> "exec_result", to |-> "caller", status |-> 0,
            body |-> Result(FALSE, out.err, "", "")]>>
    ELSE <<[channel |-> "exec_result", to |-> "caller", status |-> 0,
            body |-> out.result]>>

\* the route without its catch: a throw ends the handler and nothing is sent
RestRepliesUncaught(out) ==
    IF out.kind = "throw" THEN <<>>
    ELSE <<[channel |-> "http", to |-> "caller", status |-> 200, body |-> out.result]>>

\* app.post('/api/execute'): res.json(result), or status 500 with the caught error
RestReplies(out) ==
    IF out.kind = "throw"
    THEN <<[channel |-> "http", to |-> "caller", status |-> 500,
            body |-> Result(FALSE, "", out.err, "")]>>
    ELSE <<[channel |-> "http", to |-> "caller", status |-> 200, body |-> out.result]>>

Replies(via, out) == IF via = "socket" THEN SocketReplies(out) ELSE RestReplies(out)

Requests == 1..MaxReq
NoData == [shape |-> "undefined", pair |-> NoPair,
           bestBuy |-> [exchange |-> UnknownEx, ask |-> Undefined],
           bestSell |-> [exchange |-> UnknownEx, bid |-> Undefined]]
IdleRequest == [pc |-> "idle", via |-> "", data |-> NoData, logs |-> <<>>, replies |-> <<>>]

\* the request after one run of its handler that ended as `out`
Advance(r, out) ==
    [r EXCEPT !.logs = @ \o out.logs,
              !.pc = IF out.kind = "await" THEN out.call[1].op ELSE "done",
              !.replies = IF out.kind = "await" THEN @ ELSE @ \o Replies(r.via, out)]

\* the adapter calls after that run: the call it awaits, marked pending
Called(cs, id, out) ==
    IF out.kind = "await"
    THEN Append(cs, [by |-> id, call |-> out.call[1], state |-> "pending", error |-> ""])
    ELSE cs

\* the pending call of request id comes back
Settled(cs, id, o) ==
    [i \in 1..Len(cs) |->
        IF cs[i].by = id /\ cs[i].state = "pending"
        THEN [cs[i] EXCEPT !.state = IF o.ok THEN "done" ELSE "failed", !.error = o.message]
        ELSE cs[i]]

\* the handler held back until the scan cycle in progress is over
TriggerAfterCycle(id, via, data) ==
    /\ req[id].pc = "idle"
    /\ loop.pc \in {"while", "sleep", "stopped"}
    /\ LET out == ExecuteEnter(exchanges, data)
       IN  /\ req' = [req EXCEPT ![id] = Advance([@ EXCEPT !.via = via, !.data = data], out)]
           /\ calls' = Called(calls, id, out)
    /\ UNCHANGED <<exchanges, withdrawAddresses, running, loop, emitted>>

Trigger(id, via, data) ==
    /\ req[id].pc = "idle"
    /\ LET out == ExecuteEnter(exchanges, data)
       IN  /\ req' = [req EXCEPT ![id] = Advance([@ EXCEPT !.via = via, !.data = data], out)]
           /\ calls' = Called(calls, id, out)
    /\ UNCHANGED <<exchanges, withdrawAddresses, running, loop, emitted>>

\* a dashboard client emits 'execute'
SocketExecute(id, data) == Trigger(id, "socket", data)

\* a client posts to /api/execute
PostApiExecute(id, data) == Trigger(id, "rest", data)

\* createMarketOrder returns or fails
CreateMarketOrderReturns(id, o) ==
    /\ req[id].pc = "createMarketOrder"
    /\ LET out == ExecuteAfterBuy(exchanges, withdrawAddresses, req[id].data, o)
       IN  /\ req' = [req EXCEPT ![id] = Advance(@, out)]
           /\ calls' = Called(Settled(calls, id, o), id, out)
    /\ UNCHANGED <<exchanges, withdrawAddresses, running, loop, emitted>>

\* withdraw returns or fails
WithdrawReturns(id, o) ==
    /\ req[id].pc = "withdraw"
    /\ LET out == ExecuteAfterWithdraw(o)
       IN  /\ req' = [req EXCEPT ![id] = Advance(@, out)]
           /\ calls' = Called(Settled(calls, id, o), id, out)
    /\ UNCHANGED <<exchanges, withdrawAddresses, running, loop, emitted>>

\* ---- fetchPrice, scanPair ---------------------------------------------------------
\* what exchange.fetchTicker(pair) comes back with: an error, or a ticker whose bid
\* and ask are numbers, 0 standing for a missing, null or zero field
Tickers == {[throws |-> TRUE, bid |-> 0, ask |-> 0]}
           \cup [throws : {FALSE}, bid : Levels, ask : Levels]
           \cup [throws : {FALSE}, bid : {0}, ask : {0, 500}]
           \cup [throws : {FALSE}, bid : {500}, ask : {0}]

\* fetchPrice(exchange, pair): null (<<>>) without the capability or on an error
FetchPrice(exs, id, t) ==
    IF ~Has(exs, id, "fetchTicker") THEN <<>>
    ELSE IF t.throws THEN <<>>
    ELSE <<[bid |-> t.bid, ask |-> t.ask]>>

\* the body of scanPair's for loop: push the quote if price && price.bid && price.ask
Pushed(results, id, price) ==
    IF price # <<>> /\ price[1].bid # 0 /\ price[1].ask # 0
    THEN Append(results, [exchange |-> id, bid |-> price[1].bid, ask |-> price[1].ask])
    ELSE results

\* Array.prototype.sort with a comparator that subtracts two keys: ascending in the
\* key, and stable (elements of equal key keep their order); keys[i] is seq[i]'s key
\* (the concatenation with <<>> only turns the function into a tuple)
SortBy(seq, keys) ==
    LET n == Len(seq)
        rank(i) == Cardinality({j \in 1..n : keys[j] < keys[i]
                                              \/ (keys[j] = keys[i] /\ j < i)}) + 1
    IN  <<>> \o [k \in 1..n |-> seq[CHOOSE i \in 1..n : rank(i) = k]]

\* results.sort((a, b) => a.ask - b.ask)
ByAsk(results) == SortBy(results, [i \in 1..Len(results) |-> results[i].ask])

\* the bid comparator turned round
ByBidAscending(results) == SortBy(results, [i \in 1..Len(results) |-> results[i].bid])

\* results.sort((a, b) => b.bid - a.bid)
ByBid(results) == SortBy(results, [i \in 1..Len(results) |-> 0 - results[i].bid])

\* the end of scanPair: null (<<>>) under two quotes, else the snapshot
Snapshot(pair, results) ==
    IF Len(results) < 2 THEN <<>>
    ELSE LET byAsk == ByAsk(results)
             byBid == ByBid(byAsk)
         IN  <<[pair |-> pair, bestBuy |-> byAsk[1], bestSell |-> byBid[1], all |-> byBid]>>

\* ---- mainLoop -----------------------------------------------------------------------
\* the threshold taken strictly: spread > MIN_ARBITRAGE_SPREAD
SpreadExceeds(sellPrice, buyPrice) ==
    IF buyPrice = 0 THEN sellPrice > 0
    ELSE (sellPrice - buyPrice) * MinSpreadDen > MinSpreadNum * buyPrice

\* spread >= MIN_ARBITRAGE_SPREAD for spread = (sell.bid - buy.ask) / buy.ask
SpreadReaches(sellPrice, buyPrice) ==
    IF buyPrice = 0 THEN sellPrice > 0
    ELSE (sellPrice - buyPrice) * MinSpreadDen >= MinSpreadNum * buyPrice

\* the test of the two exchanges left out
IsOpportunityAnyExchange(buy, sell) == SpreadReaches(sell.bid, buy.ask)

\* spread >= MIN_ARBITRAGE_SPREAD && buy.exchange !== sell.exchange
IsOpportunity(buy, sell) ==
    SpreadReaches(sell.bid, buy.ask) /\ buy.exchange # sell.exchange

Event(type, o) ==
    [type |-> type, pair |-> o.pair, buy |-> o.bestBuy, sell |-> o.bestSell,
     spread |-> <<o.bestSell.bid - o.bestBuy.ask, o.bestBuy.ask>>]

\* the ticker held back unless the pair is an opportunity
EmitsAboveThreshold(opp) ==
    IF opp = <<>> THEN <<>>
    ELSE IF IsOpportunity(opp[1].bestBuy, opp[1].bestSell)
         THEN <<Event("ticker", opp[1]), Event("opportunity", opp[1])>>
         ELSE <<>>

\* the events one for-iteration emits for what scanPair returned
Emits(opp) ==
    IF opp = <<>> THEN <<>>
    ELSE <<Event("ticker", opp[1])>>
         \o (IF IsOpportunity(opp[1].bestBuy, opp[1].bestSell)
             THEN <<Event("opportunity", opp[1])>> ELSE <<>>)

\* io.emit may itself raise: `fails` is the type of the event whose emission raises
\* ("" when none does).  The events that went out before the error:
Emitted(opp, fails) ==
    LET es == Emits(opp)
        stop == {k \in 1..Len(es) : es[k].type = fails}
    IN  IF stop = {} THEN es
        ELSE SubSeq(es, 1, (CHOOSE k \in stop : \A j \in stop : k <= j) - 1)

\* an error is raised inside the for loop's body
Raises(opp, fails) == \E k \in 1..Len(Emits(opp)) : Emits(opp)[k].type = fails

\* mainLoop buying by itself on every opportunity it emits
AutoExecutedBuy(events) ==
    LET opps == SelectSeq(events, LAMBDA e : e.type = "opportunity")
    IN  [i \in 1..Len(opps) |->
            [by |-> 0, state |-> "pending", error |-> "",
             call |-> Call("createMarketOrder", opps[i].buy.exchange, opps[i].pair, "buy",
                           BaseAmount(opps[i].buy.ask), "")]]

\* the adapter calls mainLoop makes for the opportunities it emitted: none, execution
\* is left to the two triggers
AutoExecuted(events) == <<>>

Keys(exs) == SelectSeq(ExOrder, LAMBDA id : id \in DOMAIN exs)

\* mainLoop before its first step
InitLoop == [pc |-> "while", pairIdx |-> 0, exIdx |-> 1, results |-> <<>>,
             responses |-> <<>>, opp |-> <<>>, returned |-> FALSE,
             caught |-> FALSE, cycle |-> <<>>, lastFailed |-> FALSE]

\* the flag never read: while (true)
LoopTestUnconditional ==
    /\ loop.pc = "while"
    /\ loop' = [InitLoop EXCEPT !.pc = "pair", !.lastFailed = loop.caught]
    /\ emitted' = <<>>
    /\ UNCHANGED <<exchanges, withdrawAddresses, running, req, calls>>

\* while (running): the for loop is entered, or mainLoop ends
LoopTest ==
    /\ loop.pc = "while"
    /\ loop' = IF running THEN [InitLoop EXCEPT !.pc = "pair", !.lastFailed = loop.caught]
               ELSE [InitLoop EXCEPT !.pc = "stopped", !.lastFailed = loop.caught]
    /\ emitted' = <<>>
    /\ UNCHANGED <<exchanges, withdrawAddresses, running, req, calls>>

\* what the cycle keeps of one pair: whether an adapter failed on its quote, whether
\* scanPair returned a snapshot, the types of the events emitted for it, and, when
\* the pair was done, the value of the flag and whether a request was waiting for an
\* adapter
Summary(l, opp, events) ==
    [pair |-> PAIRS[l.pairIdx],
     running |-> running,
     waiting |-> \E id \in Requests : req[id].pc \in {"createMarketOrder", "withdraw"},
     threw |-> \E i \in 1..Len(l.responses) : l.responses[i].throws,
     snapshot |-> opp # <<>>,
     events |-> [k \in 1..Len(events) |-> events[k].type]]

\* mainLoop without its catch: an error raised in the for loop ends mainLoop
ReturnedUncaught(l, results, fails) ==
    LET opp == Snapshot(PAIRS[l.pairIdx], results)
    IN  [l EXCEPT !.results = results,
                  !.opp = opp,
                  !.returned = TRUE,
                  !.caught = FALSE,
                  !.cycle = Append(@, Summary(l, opp, Emitted(opp, fails))),
                  !.pc = IF Raises(opp, fails) THEN "stopped"
                         ELSE IF l.pairIdx = Len(PAIRS) THEN "sleep" ELSE "pair"]

\* an adapter's error on the quote request reaching mainLoop's catch
ReturnedErrorEscapes(l, results, fails) ==
    LET opp == Snapshot(PAIRS[l.pairIdx], results)
        escapes == \E i \in 1..Len(l.responses) : l.responses[i].throws
    IN  [l EXCEPT !.results = results,
                  !.opp = IF escapes THEN <<>> ELSE opp,
                  !.returned = TRUE,
                  !.caught = escapes \/ Raises(opp, fails),
                  !.cycle = Append(@, Summary(l, IF escapes THEN <<>> ELSE opp,
                                              IF escapes THEN <<>> ELSE Emitted(opp, fails))),
                  !.pc = IF escapes \/ Raises(opp, fails) \/ l.pairIdx = Len(PAIRS)
                         THEN "sleep" ELSE "pair"]

\* scanPair's for loop is over: the two sorts, the snapshot, and the rest of
\* mainLoop's iteration for this pair, up to the next pair or the sleep; an error
\* raised on the way leaves the for loop for the catch, and the sleep follows
Returned(l, results, fails) ==
    LET opp == Snapshot(PAIRS[l.pairIdx], results)
    IN  [l EXCEPT !.results = results,
                  !.opp = opp,
                  !.returned = TRUE,
                  !.caught = Raises(opp, fails),
                  !.cycle = Append(@, Summary(l, opp, Emitted(opp, fails))),
                  !.pc = IF Raises(opp, fails) \/ l.pairIdx = Len(PAIRS)
                         THEN "sleep" ELSE "pair"]

\* for (const pair of PAIRS): scanPair(pair) is called and asks its first adapter
ScanPairStarts ==
    /\ loop.pc = "pair"
    /\ LET l == [loop EXCEPT !.pairIdx = @ + 1, !.exIdx = 1, !.results = <<>>,
                             !.responses = <<>>, !.opp = <<>>, !.returned = FALSE,
                             !.pc = "fetch"]
       IN  IF Len(Keys(exchanges)) = 0
           THEN /\ loop' = Returned(l, <<>>, "")
                /\ emitted' = Emitted(loop'.opp, "")
                /\ calls' = calls \o AutoExecuted(emitted')
           ELSE /\ loop' = l
                /\ emitted' = <<>>
                /\ calls' = calls
    /\ UNCHANGED <<exchanges, withdrawAddresses, running, req>>

\* fetchPrice for the adapter in turn comes back with t (an adapter without
\* fetchTicker is not asked); after the last adapter scanPair returns and the
\* events of the pair are emitted, the emission of type `fails` raising
Fetch(t, fails) ==
    /\ loop.pc = "fetch"
    /\ LET id == Keys(exchanges)[loop.exIdx]
           asked == Has(exchanges, id, "fetchTicker")
           answer == IF asked
                     THEN [exchange |-> id, asked |-> TRUE, throws |-> t.throws,
                           bid |-> t.bid, ask |-> t.ask]
                     ELSE [exchange |-> id, asked |-> FALSE, throws |-> FALSE,
                           bid |-> 0, ask |-> 0]
           results == Pushed(loop.results, id, FetchPrice(exchanges, id, t))
           l == [loop EXCEPT !.results = results, !.responses = Append(@, answer),
                             !.exIdx = @ + 1]
       IN  /\ asked \/ t.throws
           /\ fails = "" \/ (loop.exIdx = Len(Keys(exchanges))
                              /\ Raises(Snapshot(PAIRS[loop.pairIdx], results), fails))
           /\ IF loop.exIdx = Len(Keys(exchanges))
              THEN /\ loop' = Returned(l, results, fails)
                   /\ emitted' = Emitted(loop'.opp, fails)
                   /\ calls' = calls \o AutoExecuted(emitted')
              ELSE /\ loop' = l
                   /\ emitted' = emitted
                   /\ calls' = calls
    /\ UNCHANGED <<exchanges, withdrawAddresses, running, req>>

\* setTimeout(res, SCAN_INTERVAL_MS) fires
Sleep ==
    /\ loop.pc = "sleep"
    /\ loop' = [loop EXCEPT !.pc = "while"]
    /\ UNCHANGED <<exchanges, withdrawAddresses, running, emitted, req, calls>>

\* ---- inputs -------------------------------------------------------------------------------
PayloadExchanges == {"binance", "okx", UnknownEx}
PayloadPrices == {Undefined, 0} \cup Levels

\* every payload shape: no data, no bestBuy, no bestSell, and the full opportunity
Payloads ==
    {[NoData EXCEPT !.shape = s] : s \in {"undefined", "noBestBuy", "noBestSell"}}
    \cup {[shape |-> "full", pair |-> p,
           bestBuy |-> [exchange |-> b, ask |-> a],
           bestSell |-> [exchange |-> s, bid |-> d]] :
            p \in {"BTC/USDT", NoPair}, b \in PayloadExchanges, s \in PayloadExchanges,
            a \in PayloadPrices, d \in PayloadPrices}

AddressOf(key) == "addr-" \o key[1] \o "-" \o key[2]
Book(keys) == [k \in keys |-> AddressOf(k)]

\* the deployments one execution is checked in: two adapters with every order and
\* withdraw capability, every address book over their BTC entries
ExecExchanges ==
    {f \in [{"binance", "okx"} -> HasRecords] : \A i \in DOMAIN f : f[i].fetchTicker}
ExecBooks == {Book(k) : k \in SUBSET ({"binance", "okx"} \X {"BTC"})}

InitWith(exs, books) ==
    /\ exchanges \in exs
    /\ withdrawAddresses \in books
    /\ running = TRUE
    /\ loop = InitLoop
    /\ emitted = <<>>
    /\ req = [id \in Requests |-> IdleRequest]
    /\ calls = <<>>

\* ---- one manual execution, over every payload ------------------------------------
InitExec == InitWith(ExecExchanges, ExecBooks)

NextExec ==
    \/ \E data \in Payloads : SocketExecute(1, data)
    \/ \E data \in Payloads : PostApiExecute(1, data)
    \/ \E o \in AdapterOutcomes : CreateMarketOrderReturns(1, o)
    \/ \E o \in AdapterOutcomes : WithdrawReturns(1, o)

SpecExec == InitExec /\ [][NextExec]_vars

\* ---- the scan loop alone, over every adapter response --------------------------------
\* adapters with and without fetchTicker; bybit, or every adapter, may be missing
ScanExchanges ==
    UNION {{f \in [d -> HasRecords] : \A i \in d : f[i].createMarketOrder /\ f[i].withdraw} :
           d \in {ExIds, ExIds \ {"bybit"}, {}}}

InitScan == InitWith(ScanExchanges, {Book({})})

NextScan ==
    \/ LoopTest
    \/ ScanPairStarts
    \/ \E t \in Tickers : Fetch(t, "")
    \/ Sleep

SpecScan == InitScan /\ [][NextScan]_vars

\* ---- the scan loop and the stop signal --------------------------------------------
\* the external stop signal of the specification: the flag goes down, at any moment,
\* and nothing raises it again
Stop ==
    /\ running
    /\ running' = FALSE
    /\ UNCHANGED <<exchanges, withdrawAddresses, loop, emitted, req, calls>>

StopExchanges ==
    {[id \in {"binance", "okx"} |->
        [fetchTicker |-> TRUE, createMarketOrder |-> TRUE, withdraw |-> TRUE]]}

InitStop == InitWith(StopExchanges, {Book({})})

NextStop ==
    \/ LoopTest
    \/ ScanPairStarts
    \/ \E t \in Tickers : Fetch(t, "")
    \/ Sleep
    \/ Stop

SpecStop == InitStop /\ [][NextStop]_vars

\* the timer fires and the quote requests come back; the stop signal may never come
FairSpecStop ==
    /\ SpecStop
    /\ WF_vars(LoopTest)
    /\ WF_vars(ScanPairStarts)
    /\ WF_vars(\E t \in Tickers : Fetch(t, ""))
    /\ WF_vars(Sleep)

\* a request whose adapter calls all come back is carried to its end
FairSpecExec ==
    /\ SpecExec
    /\ WF_vars(\E o \in AdapterOutcomes : CreateMarketOrderReturns(1, o))
    /\ WF_vars(\E o \in AdapterOutcomes : WithdrawReturns(1, o))

\* ---- the server: the scan loop and the manual executions together --------------------
\* binance and okx with every capability, the address book empty or with BTC on okx,
\* a few payloads and a few tickers
LiveExchanges ==
    {[id \in {"binance", "okx"} |->
        [fetchTicker |-> TRUE, createMarketOrder |-> TRUE, withdraw |-> TRUE]]}
LiveBooks == {Book({}), Book({<<"okx", "BTC">>})}
LivePayloads ==
    {p \in Payloads :
        \/ p.shape = "undefined"
        \/ /\ p.shape = "full"
           /\ p.bestBuy = [exchange |-> "binance", ask |-> 500]
           /\ p.bestSell.exchange = "okx"
           /\ p.bestSell.bid \in {500, 502}
           /\ (p.pair = NoPair => p.bestSell.bid = 502)}
LiveTickers == {t \in Tickers : t.throws \/ (t.bid = t.ask /\ t.bid \in {500, 502})}

Init == InitWith(LiveExchanges, LiveBooks)

Next ==
    \/ LoopTest
    \/ ScanPairStarts
    \/ \E t \in LiveTickers : Fetch(t, "")
    \/ Sleep
    \/ \E id \in Requests, data \in LivePayloads : SocketExecute(id, data)
    \/ \E id \in Requests, data \in LivePayloads : PostApiExecute(id, data)
    \/ \E id \in Requests, o \in AdapterOutcomes : CreateMarketOrderReturns(id, o)
    \/ \E id \in Requests, o \in AdapterOutcomes : WithdrawReturns(id, o)

Spec == Init /\ [][Next]_vars

\* ---- the scan loop and one manual execution ----------------------------------------
NextOne ==
    \/ LoopTest
    \/ ScanPairStarts
    \/ \E t \in LiveTickers : Fetch(t, "")
    \/ Sleep
    \/ \E data \in LivePayloads : SocketExecute(1, data)
    \/ \E data \in LivePayloads : PostApiExecute(1, data)
    \/ \E o \in AdapterOutcomes : CreateMarketOrderReturns(1, o)
    \/ \E o \in AdapterOutcomes : WithdrawReturns(1, o)

SpecOne == Init /\ [][NextOne]_vars

\* the timer fires and the quote requests come back; nothing promises that an order
\* or a withdrawal ever comes back
FairSpecOne ==
    /\ SpecOne
    /\ WF_vars(LoopTest)
    /\ WF_vars(ScanPairStarts)
    /\ WF_vars(\E t \in LiveTickers : Fetch(t, ""))
    /\ WF_vars(Sleep)

\* ---- the scan loop with a failing event sink -----------------------------------------
\* io.emit of the ticker, or of the opportunity, may raise
SinkFaults == {"", "ticker", "opportunity"}

InitFault == InitWith(LiveExchanges, {Book({})})

NextFault ==
    \/ LoopTest
    \/ ScanPairStarts
    \/ \E t \in Tickers, fails \in SinkFaults : Fetch(t, fails)
    \/ Sleep

SpecFault == InitFault /\ [][NextFault]_vars

\* the event loop runs what is ready: the timer fires and the quote requests come back
FairSpecFault ==
    /\ SpecFault
    /\ WF_vars(LoopTest)
    /\ WF_vars(ScanPairStarts)
    /\ WF_vars(\E t \in Tickers, fails \in SinkFaults : Fetch(t, fails))
    /\ WF_vars(Sleep)

\* ==== the claims ======================================================================
Triggered(id) == req[id].pc # "idle"
Finished(id) == req[id].pc = "done"
CallsBy(id) == SelectSeq(calls, LAMBDA c : c.by = id)
OpsBy(id, op) == SelectSeq(CallsBy(id), LAMBDA c : c.call.op = op)
\* the request got exactly this result, and once
Answered(id, result) ==
    Len(req[id].replies) = 1 /\ req[id].replies[1].body = result
\* the recomputed spread is a number below MIN_ARBITRAGE_SPREAD
BelowMin(data) ==
    /\ data.shape = "full"
    /\ data.bestBuy.ask > 0 /\ data.bestSell.bid >= 0
    /\ (data.bestSell.bid - data.bestBuy.ask) * MinSpreadDen < MinSpreadNum * data.bestBuy.ask
PassesRevalidation(data) == data.shape = "full" /\ ~BelowMin(data)
BuyerCanOrder(data) ==
    /\ data.bestBuy.exchange \in DOMAIN exchanges
    /\ exchanges[data.bestBuy.exchange].createMarketOrder
BuyPlaced(id) ==
    \E i \in 1..Len(calls) :
        calls[i].by = id /\ calls[i].call.op = "createMarketOrder" /\ calls[i].state = "done"
HasAddress(data) ==
    /\ data.pair # NoPair
    /\ <<data.bestSell.exchange, BaseAsset(data.pair)>> \in DOMAIN withdrawAddresses
\* one buy order of this request stands, it is a buy on the buy exchange, and no
\* other order was placed for the request
OneBuyStands(id) ==
    /\ Len(OpsBy(id, "createMarketOrder")) = 1
    /\ OpsBy(id, "createMarketOrder")[1].state = "done"
    /\ OpsBy(id, "createMarketOrder")[1].call.side = "buy"
    /\ OpsBy(id, "createMarketOrder")[1].call.exchange = req[id].data.bestBuy.exchange

\* C1: a payload whose recomputed spread is below minSpread is answered ok=false,
\* "spread too low", and no createMarketOrder and no withdraw call is made for it.
C1_SpreadTooLowHasNoEffect ==
    \A id \in Requests :
        (Triggered(id) /\ BelowMin(req[id].data)) =>
            /\ Finished(id)
            /\ Answered(id, Result(FALSE, "spread too low", "", ""))
            /\ CallsBy(id) = <<>>

C1_Witness ==
    \E id \in Requests :
        /\ Finished(id) /\ BelowMin(req[id].data)
        /\ BuyerCanOrder(req[id].data)
        /\ req[id].data.bestSell.bid > req[id].data.bestBuy.ask

\* C2: revalidation passed, the buy succeeded and the address book has no entry for
\* (bestSell.exchange, base asset of the pair): the answer is ok=false, "no destination
\* address", exactly one buy order was placed, no withdrawal was requested and no
\* order reverses the buy.
C2_NoDestinationAddress ==
    \A id \in Requests :
        (/\ PassesRevalidation(req[id].data)
         /\ BuyPlaced(id)
         /\ req[id].data.pair # NoPair
         /\ ~HasAddress(req[id].data)) =>
            /\ Finished(id)
            /\ Answered(id, Result(FALSE, "no destination address", "", ""))
            /\ OneBuyStands(id)
            /\ CallsBy(id) = OpsBy(id, "createMarketOrder")

C2_Witness ==
    \E id \in Requests :
        /\ BuyPlaced(id) /\ req[id].data.pair # NoPair /\ ~HasAddress(req[id].data)
        /\ withdrawAddresses # Book({})
        /\ Finished(id)

\* C3: revalidation passed but the buy adapter is absent or cannot place orders: the
\* answer is ok=false, "buy exchange cannot create orders via API", and nothing
\* downstream happened: no adapter call, no log line.
C3_BuyExchangeCannotOrder ==
    \A id \in Requests :
        (/\ Triggered(id)
         /\ PassesRevalidation(req[id].data)
         /\ ~BuyerCanOrder(req[id].data)) =>
            /\ Finished(id)
            /\ Answered(id, Result(FALSE, "buy exchange cannot create orders via API", "", ""))
            /\ CallsBy(id) = <<>>
            /\ req[id].logs = <<>>

C3_Witness ==
    \E id \in Requests :
        /\ Finished(id) /\ PassesRevalidation(req[id].data)
        /\ req[id].data.bestBuy.exchange \in DOMAIN exchanges
        /\ ~BuyerCanOrder(req[id].data)
        /\ HasAddress(req[id].data)

\* a failed market buy is answered ok=false, "order failed", with the adapter's
\* message, after one attempt and without a withdrawal
C4_OrderFailedWhenBuyFails ==
    \A id \in Requests :
        (/\ Finished(id)
         /\ \E i \in 1..Len(calls) :
               calls[i].by = id /\ calls[i].call.op = "createMarketOrder"
               /\ calls[i].state = "failed") =>
            /\ Len(CallsBy(id)) = 1
            /\ Answered(id, Result(FALSE, "order failed", CallsBy(id)[1].error, ""))

\* "order failed" is answered only when no buy order of that call was placed
C4_OrderFailedOnlyWithoutBuy ==
    \A id \in Requests :
        \A k \in 1..Len(req[id].replies) :
            req[id].replies[k].body.reason = "order failed" => ~BuyPlaced(id)

\* C4, both halves: "order failed" is answered when the market buy fails, and only
\* when no buy order of the call was placed.
C4_OrderFailed == C4_OrderFailedWhenBuyFails /\ C4_OrderFailedOnlyWithoutBuy

\* C5: after a buy that succeeded and an address that resolved: without the withdraw
\* capability the answer is ok=false, "withdraw not supported", and withdraw is not
\* called; when withdraw fails the answer is ok=false, "withdraw failed", with the
\* adapter's message, after one withdraw call; either way the one buy order stands.
C5_WithdrawNotSupportedOrFailed ==
    \A id \in Requests :
        (Finished(id) /\ BuyPlaced(id) /\ HasAddress(req[id].data)) =>
            LET w == OpsBy(id, "withdraw")
                can == exchanges[req[id].data.bestBuy.exchange].withdraw
            IN  /\ ~can =>
                      /\ Answered(id, Result(FALSE, "withdraw not supported", "", ""))
                      /\ w = <<>>
                      /\ OneBuyStands(id)
                /\ (can /\ \E i \in 1..Len(w) : w[i].state = "failed") =>
                      /\ Len(w) = 1
                      /\ Answered(id, Result(FALSE, "withdraw failed", w[1].error, ""))
                      /\ OneBuyStands(id)
                      /\ Len(CallsBy(id)) = 2

C5_Witness ==
    \E id \in Requests :
        /\ Finished(id) /\ BuyPlaced(id) /\ HasAddress(req[id].data)
        /\ Len(OpsBy(id, "withdraw")) = 1
        /\ OpsBy(id, "withdraw")[1].state = "failed"

\* C6: ok=true is answered only at the "awaiting deposit" end: the call placed exactly
\* one buy order and then requested exactly one withdrawal, of the same base amount,
\* to the address the book gives for (bestSell.exchange, base asset), and both
\* succeeded; and no execution ever places a sell order.
C6_OkOnlyAwaitingDeposit ==
    /\ \A id \in Requests :
          \A k \in 1..Len(req[id].replies) :
              req[id].replies[k].body.ok =>
                  LET cs == CallsBy(id)
                      data == req[id].data
                  IN  /\ Finished(id)
                      /\ req[id].replies[k].body.note # ""
                      /\ Len(cs) = 2
                      /\ cs[1].call.op = "createMarketOrder" /\ cs[1].state = "done"
                      /\ cs[1].call.side = "buy"
                      /\ cs[1].call.exchange = data.bestBuy.exchange
                      /\ cs[2].call.op = "withdraw" /\ cs[2].state = "done"
                      /\ cs[2].call.exchange = data.bestBuy.exchange
                      /\ cs[2].call.amount = cs[1].call.amount
                      /\ cs[2].call.amount = <<TRADE_AMOUNT_USDT, data.bestBuy.ask>>
                      /\ HasAddress(data)
                      /\ cs[2].call.symbol = BaseAsset(data.pair)
                      /\ cs[2].call.address =
                            withdrawAddresses[<<data.bestSell.exchange, BaseAsset(data.pair)>>]
    /\ \A i \in 1..Len(calls) : calls[i].call.side # "sell"

C6_Witness ==
    \E id \in Requests :
        /\ Finished(id) /\ Len(req[id].replies) = 1 /\ req[id].replies[1].body.ok
        /\ req[id].data.bestBuy.exchange # req[id].data.bestSell.exchange

\* C7: the scan loop never trades: every createMarketOrder and withdraw call is the
\* call of a request that a socket 'execute' event or a POST /api/execute started.
C7_OnlyTriggersTrade ==
    \A i \in 1..Len(calls) :
        /\ calls[i].by \in Requests
        /\ Triggered(calls[i].by)
        /\ req[calls[i].by].via \in {"socket", "rest"}

C7_Witness ==
    /\ loop.returned
    /\ \E k \in 1..Len(emitted) : emitted[k].type = "opportunity"
    /\ calls # <<>>

\* C8: every manual execution request, whatever its payload and whatever the adapters
\* answer, gets exactly one result with an ok flag, provided the adapter calls it
\* makes come back.
C8_EveryRequestAnsweredOnce ==
    \A id \in Requests :
        /\ [](Len(req[id].replies) <= 1)
        /\ [](Finished(id) => Len(req[id].replies) = 1)
        /\ (Triggered(id) ~> (Finished(id) /\ Len(req[id].replies) = 1
                              /\ req[id].replies[1].body.ok \in BOOLEAN))

C8_Witness ==
    \E id \in Requests :
        /\ Finished(id) /\ req[id].data.shape # "full" /\ req[id].via = "rest"
        /\ Len(req[id].replies) = 1 /\ ~req[id].replies[1].body.ok

\* the quotes scanPair has to count: the adapter was asked, answered, and both bid
\* and ask are there and not zero
ValidAnswers == SelectSeq(loop.responses,
                          LAMBDA a : a.asked /\ ~a.throws /\ a.bid # 0 /\ a.ask # 0)
Quote(a) == [exchange |-> a.exchange, bid |-> a.bid, ask |-> a.ask]
ValidQuotes == {Quote(ValidAnswers[i]) : i \in 1..Len(ValidAnswers)}

\* C9: scanPair returns null when fewer than two adapters gave a valid quote, and
\* otherwise a snapshot whose bestBuy has the least ask and whose bestSell has the
\* greatest bid of exactly the valid quotes.
C9_ScanPairBestOfValid ==
    loop.returned =>
        IF Len(ValidAnswers) < 2 THEN loop.opp = <<>>
        ELSE /\ loop.opp # <<>>
             /\ loop.opp[1].pair = PAIRS[loop.pairIdx]
             /\ loop.opp[1].bestBuy \in ValidQuotes
             /\ loop.opp[1].bestSell \in ValidQuotes
             /\ \A q \in ValidQuotes : loop.opp[1].bestBuy.ask <= q.ask
             /\ \A q \in ValidQuotes : loop.opp[1].bestSell.bid >= q.bid
             /\ {loop.opp[1].all[i] : i \in 1..Len(loop.opp[1].all)} = ValidQuotes

C9_Witness ==
    /\ loop.returned /\ loop.opp # <<>>
    /\ Len(ValidAnswers) = 2 /\ Len(loop.responses) = 3
    /\ loop.opp[1].bestBuy.exchange # loop.opp[1].bestSell.exchange
    /\ \E i \in 1..3 : loop.responses[i].asked /\ ~loop.responses[i].throws
                       /\ loop.responses[i].bid = 0 /\ loop.responses[i].ask # 0

\* C10: no opportunity event is emitted for a snapshot whose bestBuy and bestSell are
\* the same exchange, whatever the spread.
C10_NoOpportunityOnOneExchange ==
    /\ \A k \in 1..Len(emitted) :
          emitted[k].type = "opportunity" => emitted[k].buy.exchange # emitted[k].sell.exchange
    /\ (/\ loop.returned /\ loop.opp # <<>>
        /\ loop.opp[1].bestBuy.exchange = loop.opp[1].bestSell.exchange) =>
          \A k \in 1..Len(emitted) : emitted[k].type # "opportunity"

C10_Witness ==
    /\ loop.returned /\ loop.opp # <<>>
    /\ loop.opp[1].bestBuy.exchange = loop.opp[1].bestSell.exchange
    /\ (loop.opp[1].bestSell.bid - loop.opp[1].bestBuy.ask) * MinSpreadDen
          >= MinSpreadNum * loop.opp[1].bestBuy.ask
    /\ Len(emitted) = 1 /\ emitted[1].type = "ticker"

\* the opportunity events of the pair just processed
Opportunities == SelectSeq(emitted, LAMBDA e : e.type = "opportunity")
\* the spec's scenario in tenths: A quotes bid 100, ask 100.1, B quotes bid 100.5,
\* ask 100.6
ScenarioQuotes == <<[exchange |-> "binance", bid |-> 1000, ask |-> 1001],
                    [exchange |-> "okx", bid |-> 1005, ask |-> 1006]>>

\* C11: for a pair with a snapshot the detector emits one opportunity event with the
\* pair, bestBuy, bestSell and the spread (bestSell.bid - bestBuy.ask) / bestBuy.ask
\* when that spread is at least minSpread (equality included) and the two exchanges
\* differ, and none when the spread is below minSpread, negative spreads included,
\* which end the pair's processing without an error; in the spec's scenario bestBuy
\* is A, bestSell is B and one opportunity is emitted.
C11_OpportunityAtThreshold ==
    /\ (loop.returned /\ loop.opp # <<>>) =>
          LET buy == loop.opp[1].bestBuy
              sell == loop.opp[1].bestSell
          IN  /\ IF (sell.bid - buy.ask) * MinSpreadDen >= MinSpreadNum * buy.ask
                    /\ buy.exchange # sell.exchange
                 THEN Opportunities =
                        <<[type |-> "opportunity", pair |-> PAIRS[loop.pairIdx],
                           buy |-> buy, sell |-> sell,
                           spread |-> <<sell.bid - buy.ask, buy.ask>>]>>
                 ELSE Opportunities = <<>>
              /\ ~loop.caught
    /\ LET s == Snapshot("BTC/USDT", ScenarioQuotes)
       IN  /\ s # <<>> /\ s[1].bestBuy = ScenarioQuotes[1] /\ s[1].bestSell = ScenarioQuotes[2]
           /\ Len(SelectSeq(Emitted(s, ""), LAMBDA e : e.type = "opportunity")) = 1

\* the spread is exactly minSpread and the opportunity went out
C11_Witness ==
    /\ loop.returned /\ loop.opp # <<>>
    /\ (loop.opp[1].bestSell.bid - loop.opp[1].bestBuy.ask) * MinSpreadDen
          = MinSpreadNum * loop.opp[1].bestBuy.ask
    /\ Len(Opportunities) = 1
    /\ \E i \in 1..Len(loop.opp[1].all) :
          loop.opp[1].all[i].bid < loop.opp[1].all[i].ask

\* C12: in every cycle each configured pair is processed at most once and in order;
\* a pair for which scanPair returned a snapshot gets exactly one ticker event
\* {pair, buy, sell, spread}, whatever the spread and the exchanges, and the ticker
\* goes out before the pair's opportunity event, if any; a pair with a null snapshot
\* gets no event.
C12_OneTickerPerSnapshot ==
    /\ Len(loop.cycle) <= Len(PAIRS)
    /\ \A i \in 1..Len(loop.cycle) :
          /\ loop.cycle[i].pair = PAIRS[i]
          /\ IF loop.cycle[i].snapshot
             THEN loop.cycle[i].events \in {<<"ticker">>, <<"ticker", "opportunity">>}
             ELSE loop.cycle[i].events = <<>>
    /\ loop.returned =>
          /\ Len(loop.cycle) = loop.pairIdx
          /\ loop.cycle[loop.pairIdx].events = [k \in 1..Len(emitted) |-> emitted[k].type]
          /\ loop.cycle[loop.pairIdx].snapshot = (loop.opp # <<>>)
          /\ loop.opp # <<>> =>
                emitted[1] = [type |-> "ticker", pair |-> PAIRS[loop.pairIdx],
                              buy |-> loop.opp[1].bestBuy, sell |-> loop.opp[1].bestSell,
                              spread |-> <<loop.opp[1].bestSell.bid - loop.opp[1].bestBuy.ask,
                                           loop.opp[1].bestBuy.ask>>]

\* the second pair of a cycle got its ticker with a negative spread on one exchange,
\* after the first pair got a ticker and an opportunity
C12_Witness ==
    /\ loop.returned /\ loop.pairIdx = 2 /\ loop.opp # <<>>
    /\ loop.cycle[1].events = <<"ticker", "opportunity">>
    /\ loop.opp[1].bestSell.bid < loop.opp[1].bestBuy.ask
    /\ loop.opp[1].bestSell.exchange = loop.opp[1].bestBuy.exchange
    /\ Len(emitted) = 1 /\ emitted[1].type = "ticker"

\* the exchanges whose adapter failed on the quote request of the current pair
Failed == {loop.responses[i].exchange : i \in {j \in 1..Len(loop.responses) :
                                                  loop.responses[j].throws}}

\* C13: an adapter that throws on the quote request of a pair is left out of that
\* pair's quotes and nothing else changes: the quotes of the other adapters all
\* count, no error reaches mainLoop, and the cycle goes through every configured
\* pair, each pair with a snapshot getting its ticker (and its opportunity when it
\* qualifies).
C13_AdapterErrorExcludesOnlyItsQuote ==
    /\ loop.returned =>
          /\ \A k \in 1..Len(loop.results) : loop.results[k].exchange \notin Failed
          /\ {loop.results[k] : k \in 1..Len(loop.results)} = ValidQuotes
          /\ loop.opp = Snapshot(PAIRS[loop.pairIdx], loop.results)
          /\ emitted = Emits(loop.opp)
          /\ loop.pairIdx < Len(PAIRS) => loop.pc = "pair"
    /\ ~loop.caught
    /\ loop.pc = "sleep" => Len(loop.cycle) = Len(PAIRS)
    /\ \A i \in 1..Len(loop.cycle) :
          loop.cycle[i].snapshot => loop.cycle[i].events # <<>>

\* an adapter failed on the first pair, whose snapshot came from the two others, and
\* the second pair was scanned and emitted as an opportunity in the same cycle
C13_Witness ==
    /\ loop.pc = "sleep" /\ Len(loop.cycle) = 2
    /\ loop.cycle[1].threw /\ loop.cycle[1].snapshot
    /\ loop.cycle[2].events = <<"ticker", "opportunity">>
    /\ ~loop.cycle[2].threw

\* C14: the result of every manual execution, by socket 'execute' or by POST
\* /api/execute, is returned to the caller and is also broadcast to every observer
\* as an exec_result event.
C14_ResultBroadcast ==
    \A id \in Requests :
        Finished(id) =>
            /\ \E k \in 1..Len(req[id].replies) : req[id].replies[k].to = "caller"
            /\ \E k \in 1..Len(req[id].replies) :
                  /\ req[id].replies[k].channel = "exec_result"
                  /\ req[id].replies[k].to = "all"

\* C15: an error raised while one pair is processed stays with that pair: the pairs
\* after it in PAIRS are still processed in the same cycle, so a cycle that caught an
\* error has been through every pair when it goes to sleep.
C15_ErrorIsolatedToPair ==
    (loop.caught /\ loop.pc \in {"sleep", "while"}) => Len(loop.cycle) = Len(PAIRS)

\* the for loop of a new cycle is entered
CycleStarts == loop.pc = "pair" /\ loop.pairIdx = 0

\* C16: an error raised during a scan cycle does not end the scan loop: with the stop
\* signal not set the loop never terminates, a failed cycle is caught and goes to the
\* sleep, and every cycle, failed or not, is followed by the sleep and then by the
\* next cycle.
C16_LoopSurvivesErrors ==
    /\ [](running => loop.pc # "stopped")
    /\ [](Raises(loop.opp, "ticker") /\ loop.returned /\ emitted = <<>> => loop.caught)
    /\ [](loop.caught => loop.pc \in {"sleep", "while"})
    /\ (CycleStarts ~> loop.pc = "sleep")
    /\ (loop.pc = "sleep" ~> CycleStarts)
    /\ (loop.caught ~> (CycleStarts /\ loop.lastFailed))

\* the cycle after a failed one is under way and has emitted for its second pair
C16_Witness ==
    /\ loop.lastFailed /\ loop.returned /\ loop.pairIdx = 2
    /\ emitted # <<>> /\ ~loop.caught

\* the seven ends of executeArbitrage: six reasons and the "awaiting deposit" note
TerminalOutcome(body) ==
    \/ body.reason \in {"spread too low", "buy exchange cannot create orders via API",
                        "order failed", "no destination address",
                        "withdraw not supported", "withdraw failed"}
    \/ body.ok

\* C17: every execution that ends in one of the terminal outcomes (spread too low, buy
\* exchange cannot create orders, order failed, no destination address, withdraw not
\* supported, withdraw failed, awaiting deposit) has emitted at least one log event
\* before its result is returned.
C17_EveryOutcomeLogged ==
    \A id \in Requests :
        \A k \in 1..Len(req[id].replies) :
            TerminalOutcome(req[id].replies[k].body) => req[id].logs # <<>>

\* the first of the valid answers, in adapter iteration order, that has the least ask,
\* and the first that has the greatest bid
FirstWithMinAsk ==
    Quote(ValidAnswers[CHOOSE i \in 1..Len(ValidAnswers) :
            /\ \A j \in 1..Len(ValidAnswers) : ValidAnswers[i].ask <= ValidAnswers[j].ask
            /\ \A j \in 1..(i - 1) : ValidAnswers[j].ask # ValidAnswers[i].ask])
FirstWithMaxBid ==
    Quote(ValidAnswers[CHOOSE i \in 1..Len(ValidAnswers) :
            /\ \A j \in 1..Len(ValidAnswers) : ValidAnswers[i].bid >= ValidAnswers[j].bid
            /\ \A j \in 1..(i - 1) : ValidAnswers[j].bid # ValidAnswers[i].bid])

\* of several quotes with the least ask, bestBuy is the first in adapter order
C18_BestBuyFirstInOrder ==
    (loop.returned /\ loop.opp # <<>>) => loop.opp[1].bestBuy = FirstWithMinAsk

\* of several quotes with the greatest bid, bestSell is the first in adapter order
C18_BestSellFirstInOrder ==
    (loop.returned /\ loop.opp # <<>>) => loop.opp[1].bestSell = FirstWithMaxBid

\* C18: ties in scanPair go to the exchange that comes first in adapter iteration
\* order: for bestBuy among the quotes that share the least ask, and for bestSell
\* among the quotes that share the greatest bid, whatever the asks of those quotes.
C18_TieBreakInAdapterOrder == C18_BestBuyFirstInOrder /\ C18_BestSellFirstInOrder

\* C19: the loop is RUNNING, then STOPPED, with no way back.  The flag is read at the
\* cycle boundary only: a stop raised during a cycle lets the cycle go through all
\* its pairs and reach the sleep; mainLoop ends only at the while test, with the flag
\* down; once it has ended no cycle starts and no ticker or opportunity is emitted;
\* and with the quote requests coming back, a stop is followed by the end of the loop.
C19_StopAtCycleBoundary ==
    /\ [][~running => ~running']_vars
    /\ [][(loop.pc # "stopped" /\ loop'.pc = "stopped") => (loop.pc = "while" /\ ~running)]_vars
    /\ [](loop.pc = "sleep" => Len(loop.cycle) = Len(PAIRS))
    /\ [][loop.pc \in {"pair", "fetch"} => loop'.pc \in {"pair", "fetch", "sleep"}]_vars
    /\ [][loop.pc = "stopped" => (loop' = loop /\ emitted' = emitted)]_vars
    /\ [](loop.pc = "stopped" => (~running /\ loop.cycle = <<>> /\ emitted = <<>>))
    /\ (~running ~> [](loop.pc = "stopped"))

\* the stop came while the first pair was being scanned, and the cycle still went
\* through the second pair and emitted its ticker
C19_Witness ==
    /\ loop.pc = "sleep" /\ Len(loop.cycle) = 2
    /\ ~loop.cycle[1].running
    /\ loop.cycle[2].events # <<>>

\* the requests suspended at an adapter call
Waiting == {id \in Requests : req[id].pc \in {"createMarketOrder", "withdraw"}}

\* C20: the scan loop and the manual executions do not block each other.  A step of
\* the scan loop leaves every request, its adapter calls and its inputs as they are,
\* and a step of an execution leaves the scan loop as it is; an idle request can be
\* started at every moment of a cycle; and whatever requests wait for an order or a
\* withdrawal, even for ever, the loop goes on completing cycles, each pair with a
\* snapshot getting its ticker.
C20_ScanAndExecutionsInterleave ==
    /\ [][(loop' # loop \/ emitted' # emitted) =>
            UNCHANGED <<req, calls, exchanges, withdrawAddresses>>]_vars
    /\ [][req' # req => UNCHANGED <<loop, emitted, running>>]_vars
    /\ [](\A id \in Requests :
            req[id].pc = "idle" =>
                /\ ENABLED (\E data \in LivePayloads : SocketExecute(id, data))
                /\ ENABLED (\E data \in LivePayloads : PostApiExecute(id, data)))
    /\ []((loop.returned /\ loop.opp # <<>>) =>
            (emitted # <<>> /\ emitted[1].type = "ticker"))
    /\ []<>(loop.pc = "sleep")
    /\ []<>CycleStarts
    /\ \A id \in Requests : (<>[](id \in Waiting)) => []<>(loop.pc = "sleep")

\* a request was waiting for its order while the scan loop went through both pairs of
\* a cycle and emitted their tickers, and it is still waiting
C20_Witness ==
    /\ loop.pc = "sleep" /\ Len(loop.cycle) = 2
    /\ req[1].pc = "createMarketOrder"
    /\ loop.cycle[1].waiting /\ loop.cycle[2].waiting
    /\ loop.cycle[1].events # <<>> /\ loop.cycle[2].events # <<>>

====
